---------------------------- MODULE Spec2Model ----------------------------
(***************************************************************************)
(* school-api: the Student and Teacher controllers.                        *)
(*                                                                         *)
(* Strings are sequences of one-character strings, so that parseInt,       *)
(* toLowerCase, split, trim, startsWith and substring are computed the way *)
(* JavaScript computes them.  An absent query parameter is Undefined.      *)
(* The persistence layer (Sequelize models) is the environment: every call *)
(* either throws or resolves; a call that throws leaves `store` as it was, *)
(* a call that resolves acts on it in one step.  The database outlives the *)
(* server, so the tables hold any rows when the first request arrives.     *)
(*                                                                         *)
(* Spec is the server under concurrent requests, one step per awaited      *)
(* call.  SpecPlan runs the query interpretation of one list or get-by-id  *)
(* request on raw query strings drawn from bounded sets.                   *)
(***************************************************************************)
EXTENDS Integers, Sequences, FiniteSets, TLC

VARIABLES store, reqs, call, result

vars == <<store, reqs, call, result>>

(***************************************************************************)
(* Bounds of the model.                                                    *)
(***************************************************************************)
MaxReq == 2
MaxId == 1
MaxNumLen == 2
MaxSortLen == 5
MaxAtoms == 4

(***************************************************************************)
(* JavaScript values and string functions.                                 *)
(***************************************************************************)
Undefined == <<"undefined">>

JsToString(v) ==
    IF v = Undefined THEN <<"u", "n", "d", "e", "f", "i", "n", "e", "d">> ELSE v

Truthy(v) == v # Undefined /\ v # <<>>

UpperCase == <<"A", "B", "C", "D", "E", "F", "G", "H", "I", "J", "K", "L", "M",
               "N", "O", "P", "Q", "R", "S", "T", "U", "V", "W", "X", "Y", "Z">>

LowerCase == <<"a", "b", "c", "d", "e", "f", "g", "h", "i", "j", "k", "l", "m",
               "n", "o", "p", "q", "r", "s", "t", "u", "v", "w", "x", "y", "z">>

ToLowerChar(c) ==
    IF \E i \in 1..26 : UpperCase[i] = c
    THEN LowerCase[CHOOSE i \in 1..26 : UpperCase[i] = c]
    ELSE c

ToLowerCase(s) == [i \in 1..Len(s) |-> ToLowerChar(s[i])]

WhiteSpace == {" ", "\t", "\n", "\r"}

RECURSIVE TrimStart(_)
TrimStart(s) ==
    IF s # <<>> /\ Head(s) \in WhiteSpace THEN TrimStart(Tail(s)) ELSE s

RECURSIVE TrimEnd(_)
TrimEnd(s) ==
    IF s # <<>> /\ s[Len(s)] \in WhiteSpace
    THEN TrimEnd(SubSeq(s, 1, Len(s) - 1))
    ELSE s

Trim(s) == TrimEnd(TrimStart(s))

\* s.split(sep) for a one-character separator: "" splits into [""].
RECURSIVE SplitFrom(_, _, _)
SplitFrom(s, sep, cur) ==
    IF s = <<>> THEN <<cur>>
    ELSE IF Head(s) = sep THEN <<cur>> \o SplitFrom(Tail(s), sep, <<>>)
    ELSE SplitFrom(Tail(s), sep, Append(cur, Head(s)))

Split(s, sep) == SplitFrom(s, sep, <<>>)

\* xs.map(p => p.trim())
MapTrim(xs) == [i \in 1..Len(xs) |-> Trim(xs[i])]

Includes(xs, x) == \E i \in 1..Len(xs) : xs[i] = x

StartsWith(s, p) == Len(s) >= Len(p) /\ SubSeq(s, 1, Len(p)) = p

Substring(s, n) == SubSeq(s, n + 1, Len(s))

(***************************************************************************)
(* parseInt(string) with no radix: leading white space is skipped, a sign  *)
(* is read, a 0x/0X prefix selects radix 16, and the longest prefix of     *)
(* digits is the value; no digit at all is NaN.                            *)
(***************************************************************************)
DigitChars == <<"0", "1", "2", "3", "4", "5", "6", "7", "8", "9",
                "a", "b", "c", "d", "e", "f">>

IsDigit(c, radix) == \E i \in 1..radix : DigitChars[i] = ToLowerChar(c)

DigitValue(c) == (CHOOSE i \in 1..16 : DigitChars[i] = ToLowerChar(c)) - 1

RECURSIVE DigitPrefix(_, _)
DigitPrefix(s, radix) ==
    IF s # <<>> /\ IsDigit(Head(s), radix)
    THEN <<Head(s)>> \o DigitPrefix(Tail(s), radix)
    ELSE <<>>

RECURSIVE MathInt(_, _)
MathInt(z, radix) ==
    IF z = <<>> THEN 0
    ELSE MathInt(SubSeq(z, 1, Len(z) - 1), radix) * radix + DigitValue(z[Len(z)])

NaN == [nan |-> TRUE, val |-> 0]

ParseInt(string) ==
    LET inputString == JsToString(string)
        S0 == TrimStart(inputString)
        sign == IF S0 # <<>> /\ Head(S0) = "-" THEN -1 ELSE 1
        S1 == IF S0 # <<>> /\ Head(S0) \in {"+", "-"} THEN Tail(S0) ELSE S0
        hex == Len(S1) >= 2 /\ S1[1] = "0" /\ S1[2] \in {"x", "X"}
        R == IF hex THEN 16 ELSE 10
        S2 == IF hex THEN Substring(S1, 2) ELSE S1
        Z == DigitPrefix(S2, R)
    IN  IF Z = <<>> THEN NaN ELSE [nan |-> FALSE, val |-> sign * MathInt(Z, R)]

\* number || fallback: NaN and 0 are falsy.
NumberOr(n, fallback) == IF n.nan \/ n.val = 0 THEN fallback ELSE n.val

\* Math.ceil(a / b) for integers a >= 0 and b # 0 (-0 is rendered 0).
MathCeilDiv(a, b) ==
    IF b > 0 THEN (a + b - 1) \div b ELSE 0 - (a \div (0 - b))


(***************************************************************************)
(* Query interpretation of the list and get-by-id handlers.  A query is a  *)
(* record [page, limit, sortby, populate] of raw strings or Undefined.     *)
(***************************************************************************)
DefaultLimit == 10
DefaultPage == 1

WName == <<"n", "a", "m", "e">>
WDesc == <<"D", "e", "s", "c">>
WCourse == <<"c", "o", "u", "r", "s", "e">>
WCourses == <<"c", "o", "u", "r", "s", "e", "s">>
WTeacher == <<"t", "e", "a", "c", "h", "e", "r">>
WStudent == <<"s", "t", "u", "d", "e", "n", "t">>
WStudents == <<"s", "t", "u", "d", "e", "n", "t", "s">>

Limit(query) == NumberOr(ParseInt(query.limit), DefaultLimit)

Page(query) == NumberOr(ParseInt(query.page), DefaultPage)

SortBy(query) == IF Truthy(query.sortby) THEN query.sortby ELSE WName

SortField(query) ==
    IF StartsWith(SortBy(query), WDesc) THEN Substring(SortBy(query), 4)
    ELSE SortBy(query)

\* Mutant of SortOrder: the direction is never switched.
SortOrderAscending(query) == "ASC"

SortOrder(query) == IF StartsWith(SortBy(query), WDesc) THEN "DESC" ELSE "ASC"

\* Mutant of Populate: the tokens are not trimmed.
PopulateUntrimmed(query) ==
    IF query.populate = Undefined THEN <<>>
    ELSE Split(ToLowerCase(query.populate), ",")

\* req.query.populate?.toLowerCase().split(',').map(p => p.trim()) || []
Populate(query) ==
    IF query.populate = Undefined THEN <<>>
    ELSE MapTrim(Split(ToLowerCase(query.populate), ","))

\* An include entry: the model, whether the join table's attributes are
\* excluded (through: { attributes: [] }), and the nested include list.
IncludeOf(model, through, nested) ==
    [model |-> model, through |-> through, include |-> nested]

StudentInclude(populate) ==
    IF Includes(populate, WCourses) \/ Includes(populate, WCourse)
    THEN <<IncludeOf("Course", TRUE,
                     IF Includes(populate, WTeacher)
                     THEN <<IncludeOf("Teacher", FALSE, <<>>)>>
                     ELSE <<>>)>>
    ELSE <<>>

TeacherInclude(populate) ==
    IF Includes(populate, WCourses) \/ Includes(populate, WCourse)
    THEN <<IncludeOf("Course", FALSE,
                     IF Includes(populate, WStudents) \/ Includes(populate, WStudent)
                     THEN <<IncludeOf("Student", TRUE, <<>>)>>
                     ELSE <<>>)>>
    ELSE <<>>

Include(entity, query) ==
    IF entity = "Student" THEN StudentInclude(Populate(query))
    ELSE TeacherInclude(Populate(query))

\* Mutant of FindAllOptions: the offset counts pages from 0.
FindAllOptionsFromPageZero(entity, query) ==
    [limit |-> Limit(query),
     offset |-> Page(query) * Limit(query),
     order |-> <<<<SortField(query), SortOrder(query)>>>>,
     include |-> Include(entity, query)]

\* The options object the list handlers pass to findAll.
FindAllOptions(entity, query) ==
    [limit |-> Limit(query),
     offset |-> (Page(query) - 1) * Limit(query),
     order |-> <<<<SortField(query), SortOrder(query)>>>>,
     include |-> Include(entity, query)]

\* The options object the get-by-id handlers pass to findByPk.
FindByPkOptions(entity, query) == [include |-> Include(entity, query)]

StudentMeta(total, query) ==
    [totalItems |-> total,
     page |-> Page(query),
     totalPages |-> MathCeilDiv(total, Limit(query))]

TeacherMeta(total, query) ==
    [totalItem |-> total,
     page |-> Page(query),
     totalPages |-> MathCeilDiv(total, Limit(query))]

Meta(entity, total, query) ==
    IF entity = "Student" THEN StudentMeta(total, query)
    ELSE TeacherMeta(total, query)

(***************************************************************************)
(* The persistence layer: one table per entity, a row is its name.         *)
(***************************************************************************)
Entities == {"Student", "Teacher"}
Ids == 1..MaxId
NameSeq == <<"a", "b">>
Names == {NameSeq[k] : k \in 1..Len(NameSeq)}
NoRow == "<none>"

Null == [isNull |-> TRUE]
Instance(id, name) == [isNull |-> FALSE, id |-> id, name |-> name]

Present(st, entity) == {i \in Ids : st[entity][i] # NoRow}

Count(entity) == Cardinality(Present(store, entity))

FindByPk(entity, id) ==
    IF store[entity][id] = NoRow THEN Null ELSE Instance(id, store[entity][id])

NameRank(name) == CHOOSE k \in 1..Len(NameSeq) : NameSeq[k] = name

\* The columns a list can be ordered by.
IsColumn(field) == ToLowerCase(field) \in {WName, <<"i", "d">>}

Reverse(xs) == [i \in 1..Len(xs) |-> xs[Len(xs) + 1 - i]]

OrderedRows(entity, order) ==
    LET ids == SelectSeq([i \in 1..MaxId |-> i], LAMBDA i : store[entity][i] # NoRow)
        byName(i, j) == NameRank(store[entity][i]) < NameRank(store[entity][j])
        asc == IF ToLowerCase(order[1]) = WName THEN SortSeq(ids, byName) ELSE ids
        seq == IF order[2] = "DESC" THEN Reverse(asc) ELSE asc
    IN  [k \in 1..Len(seq) |-> [id |-> seq[k], name |-> store[entity][seq[k]]]]

\* findAll resolves only for a window and a column the database accepts.
FindAllAccepts(options) ==
    options.limit >= 0 /\ options.offset >= 0 /\ IsColumn(options.order[1][1])

FindAll(entity, options) ==
    LET rows == OrderedRows(entity, options.order[1])
        last == IF options.offset + options.limit < Len(rows)
                THEN options.offset + options.limit ELSE Len(rows)
    IN  SubSeq(rows, options.offset + 1, last)

Insert(entity, id, name) == [store EXCEPT ![entity][id] = name]

\* instance.update / instance.destroy act on the row with the instance's
\* primary key; when that row is gone they affect no row and still resolve.
UpdateRow(entity, id, name) ==
    IF store[entity][id] = NoRow THEN store ELSE [store EXCEPT ![entity][id] = name]

\* Mutant of DestroyRow: the row is kept.
DestroyRowKept(entity, id) == store

DestroyRow(entity, id) == [store EXCEPT ![entity][id] = NoRow]

(***************************************************************************)
(* Requests.  pc names the persistence call a request is waiting for.      *)
(* calls, failed, wrote, after and existed are history: the calls issued,  *)
(* whether one threw, whether the request changed the store, the requests  *)
(* that had ended when this one arrived, and whether its row existed then. *)
(***************************************************************************)
Requests == 1..MaxReq

NoQuery ==
    [page |-> Undefined, limit |-> Undefined, sortby |-> Undefined, populate |-> Undefined]

NoResp == [status |-> 0, body |-> [none |-> TRUE]]

IdleReq ==
    [pc |-> "idle", kind |-> "none", entity |-> "none", id |-> 0, name |-> NoRow,
     query |-> NoQuery, found |-> Null, total |-> 0, resp |-> NoResp, nresp |-> 0,
     calls |-> {}, failed |-> FALSE, wrote |-> FALSE, after |-> {}, existed |-> FALSE]

Ended(req) == req.pc \in {"done", "rejected"}

\* res.status(status).json(body)
Respond(req, status, body) ==
    [req EXCEPT !.resp = [status |-> status, body |-> body],
                !.nresp = @ + 1,
                !.pc = "done"]

\* catch (err) { res.status(500).json({ error: err.message }) }
Catch(req) ==
    Respond([req EXCEPT !.failed = TRUE], 500, [error |-> "err.message"])

\* An await outside any try: the handler's promise rejects, nothing responds.
Reject(req) == [req EXCEPT !.failed = TRUE, !.pc = "rejected"]

\* Mutant of NotFound: the status is left at its default, 200.
NotFoundAs200(req) == Respond(req, 200, [message |-> "Not found"])

NotFound(req) == Respond(req, 404, [message |-> "Not found"])

Arrive(r, kind, entity, id, name, query, first) ==
    /\ reqs[r].pc = "idle"
    /\ IF r = 1 THEN TRUE ELSE reqs[r - 1].pc # "idle"
    /\ reqs' = [reqs EXCEPT ![r] =
            [IdleReq EXCEPT !.pc = first, !.kind = kind, !.entity = entity,
                            !.id = id, !.name = name, !.query = query,
                            !.calls = {first},
                            !.after = {x \in Requests : Ended(reqs[x])},
                            !.existed = (id \in Ids /\ store[entity][id] # NoRow)]]
    /\ UNCHANGED <<store, call, result>>

Waiting(r, kind, entity, pc) ==
    /\ reqs[r].kind = kind
    /\ reqs[r].entity = entity
    /\ reqs[r].pc = pc

\* A step of request r that ends in newReq and leaves the store newStore.
Step(r, newReq, newStore) ==
    /\ store' = newStore
    /\ reqs' = [reqs EXCEPT ![r] = [newReq EXCEPT !.wrote = @ \/ newStore # store]]
    /\ UNCHANGED <<call, result>>

(***************************************************************************)
(* The handlers, one step per awaited persistence call.                    *)
(***************************************************************************)
ListQueries ==
    {NoQuery,
     [NoQuery EXCEPT !.limit = <<"-", "1">>],
     [page |-> <<"2">>, limit |-> <<"1">>, sortby |-> WDesc \o WName,
      populate |-> WCourse]}

SingleQueries == {NoQuery, [NoQuery EXCEPT !.populate = WCourse]}

\* create: db.X.create(req.body), then 201 with the record.
CreateArrives(r, entity) ==
    \E id \in Ids, name \in Names :
        Arrive(r, "create", entity, id, name, NoQuery, "create")

CreateThrows(r, entity) ==
    /\ Waiting(r, "create", entity, "create")
    /\ Step(r, Catch(reqs[r]), store)

CreateResolves(r, entity) ==
    /\ Waiting(r, "create", entity, "create")
    /\ store[entity][reqs[r].id] = NoRow
    /\ Step(r, Respond(reqs[r], 201, [id |-> reqs[r].id, name |-> reqs[r].name]),
            Insert(entity, reqs[r].id, reqs[r].name))

\* getAll: count() is awaited before the try block, findAll() inside it.
GetAllArrives(r, entity) ==
    \E query \in ListQueries : Arrive(r, "getAll", entity, 0, NoRow, query, "count")

CountThrows(r, entity) ==
    /\ Waiting(r, "getAll", entity, "count")
    /\ Step(r, Reject(reqs[r]), store)

CountResolves(r, entity) ==
    /\ Waiting(r, "getAll", entity, "count")
    /\ Step(r, [reqs[r] EXCEPT !.total = Count(entity), !.pc = "findAll",
                               !.calls = @ \cup {"findAll"}], store)

FindAllThrows(r, entity) ==
    /\ Waiting(r, "getAll", entity, "findAll")
    /\ Step(r, Catch(reqs[r]), store)

FindAllResolves(r, entity) ==
    /\ Waiting(r, "getAll", entity, "findAll")
    /\ FindAllAccepts(FindAllOptions(entity, reqs[r].query))
    /\ Step(r, Respond(reqs[r], 200,
                       [meta |-> Meta(entity, reqs[r].total, reqs[r].query),
                        data |-> FindAll(entity, FindAllOptions(entity, reqs[r].query))]),
            store)

\* getById: findByPk(id, { include }), 404 when it resolves to null.
GetByIdArrives(r, entity) ==
    \E id \in Ids, query \in SingleQueries :
        Arrive(r, "getById", entity, id, NoRow, query, "findByPk")

FindByPkThrows(r, kind, entity) ==
    /\ Waiting(r, kind, entity, "findByPk")
    /\ Step(r, Catch(reqs[r]), store)

GetByIdResolves(r, entity) ==
    /\ Waiting(r, "getById", entity, "findByPk")
    /\ LET found == FindByPk(entity, reqs[r].id)
           req == [reqs[r] EXCEPT !.found = found]
       IN  Step(r, IF found.isNull THEN NotFound(req)
                   ELSE Respond(req, 200, [id |-> found.id, name |-> found.name]),
                store)

\* update: findByPk(id), 404 when null, else instance.update(req.body).
UpdateArrives(r, entity) ==
    \E id \in Ids, name \in Names :
        Arrive(r, "update", entity, id, name, NoQuery, "findByPk")

\* The lookup of update and delete resolves: 404, or the next call is issued.
LookupResolves(r, kind, entity, next) ==
    /\ Waiting(r, kind, entity, "findByPk")
    /\ LET found == FindByPk(entity, reqs[r].id)
           req == [reqs[r] EXCEPT !.found = found]
       IN  Step(r, IF found.isNull THEN NotFound(req)
                   ELSE [req EXCEPT !.pc = next, !.calls = @ \cup {next}],
                store)

UpdateThrows(r, entity) ==
    /\ Waiting(r, "update", entity, "update")
    /\ Step(r, Catch(reqs[r]), store)

UpdateResolves(r, entity) ==
    /\ Waiting(r, "update", entity, "update")
    /\ Step(r, Respond(reqs[r], 200, [id |-> reqs[r].found.id, name |-> reqs[r].name]),
            UpdateRow(entity, reqs[r].found.id, reqs[r].name))

\* delete: findByPk(id), 404 when null, else instance.destroy().
DeleteArrives(r, entity) ==
    \E id \in Ids : Arrive(r, "delete", entity, id, NoRow, NoQuery, "findByPk")

DestroyThrows(r, entity) ==
    /\ Waiting(r, "delete", entity, "destroy")
    /\ Step(r, Catch(reqs[r]), store)

\* Mutant of DestroyResolves: the response after destroy() throws.
DestroyResolvesThenThrows(r, entity) ==
    /\ Waiting(r, "delete", entity, "destroy")
    /\ Step(r, Catch(reqs[r]), DestroyRow(entity, reqs[r].found.id))

DestroyResolves(r, entity) ==
    /\ Waiting(r, "delete", entity, "destroy")
    /\ Step(r, Respond(reqs[r], 200, [message |-> "Deleted"]),
            DestroyRow(entity, reqs[r].found.id))

createStudent(r) ==
    \/ CreateArrives(r, "Student")
    \/ CreateThrows(r, "Student")
    \/ CreateResolves(r, "Student")

getAllStudents(r) ==
    \/ GetAllArrives(r, "Student")
    \/ CountThrows(r, "Student")
    \/ CountResolves(r, "Student")
    \/ FindAllThrows(r, "Student")
    \/ FindAllResolves(r, "Student")

getStudentById(r) ==
    \/ GetByIdArrives(r, "Student")
    \/ FindByPkThrows(r, "getById", "Student")
    \/ GetByIdResolves(r, "Student")

updateStudent(r) ==
    \/ UpdateArrives(r, "Student")
    \/ FindByPkThrows(r, "update", "Student")
    \/ LookupResolves(r, "update", "Student", "update")
    \/ UpdateThrows(r, "Student")
    \/ UpdateResolves(r, "Student")

deleteStudent(r) ==
    \/ DeleteArrives(r, "Student")
    \/ FindByPkThrows(r, "delete", "Student")
    \/ LookupResolves(r, "delete", "Student", "destroy")
    \/ DestroyThrows(r, "Student")
    \/ DestroyResolves(r, "Student")

createTeacher(r) ==
    \/ CreateArrives(r, "Teacher")
    \/ CreateThrows(r, "Teacher")
    \/ CreateResolves(r, "Teacher")

getAllTeachers(r) ==
    \/ GetAllArrives(r, "Teacher")
    \/ CountThrows(r, "Teacher")
    \/ CountResolves(r, "Teacher")
    \/ FindAllThrows(r, "Teacher")
    \/ FindAllResolves(r, "Teacher")

getTeacherById(r) ==
    \/ GetByIdArrives(r, "Teacher")
    \/ FindByPkThrows(r, "getById", "Teacher")
    \/ GetByIdResolves(r, "Teacher")

updateTeacher(r) ==
    \/ UpdateArrives(r, "Teacher")
    \/ FindByPkThrows(r, "update", "Teacher")
    \/ LookupResolves(r, "update", "Teacher", "update")
    \/ UpdateThrows(r, "Teacher")
    \/ UpdateResolves(r, "Teacher")

deleteTeacher(r) ==
    \/ DeleteArrives(r, "Teacher")
    \/ FindByPkThrows(r, "delete", "Teacher")
    \/ LookupResolves(r, "delete", "Teacher", "destroy")
    \/ DestroyThrows(r, "Teacher")
    \/ DestroyResolves(r, "Teacher")

NoCall == [handler |-> "none", entity |-> "none", query |-> NoQuery]
NoResult == [none |-> TRUE]

Init ==
    /\ store \in [Entities -> [Ids -> Names \cup {NoRow}]]
    /\ reqs = [r \in Requests |-> IdleReq]
    /\ call = NoCall
    /\ result = NoResult

Next ==
    \E r \in Requests :
        \/ createStudent(r)
        \/ getAllStudents(r)
        \/ getStudentById(r)
        \/ updateStudent(r)
        \/ deleteStudent(r)
        \/ createTeacher(r)
        \/ getAllTeachers(r)
        \/ getTeacherById(r)
        \/ updateTeacher(r)
        \/ deleteTeacher(r)

Spec == Init /\ [][Next]_vars

(***************************************************************************)
(* The query interpretation on its own: a list or get-by-id handler runs   *)
(* to its persistence call on a raw query drawn from bounded sets of       *)
(* strings, and the options it passes and the meta it reports are kept.    *)
(***************************************************************************)
RECURSIVE Strings(_, _)
Strings(alphabet, n) ==
    IF n = 0 THEN {<<>>}
    ELSE LET shorter == Strings(alphabet, n - 1)
         IN  shorter \cup {Append(s, c) : s \in shorter, c \in alphabet}

RECURSIVE Concats(_, _)
Concats(atoms, n) ==
    IF n = 0 THEN {<<>>}
    ELSE LET shorter == Concats(atoms, n - 1)
         IN  shorter \cup {s \o a : s \in shorter, a \in atoms}

NumAlphabet == {"0", "1", "-", " ", "x"}
NumInputs == {Undefined} \cup Strings(NumAlphabet, MaxNumLen)

SortAlphabet == {"D", "e", "s", "c", "d"}
SortInputs == {Undefined} \cup Strings(SortAlphabet, MaxSortLen)

PopulateAtoms ==
    {<<",">>, <<" ">>, WCourse, <<"C", "o", "u", "r", "s", "e", "s">>,
     WTeacher, <<"T", "E", "A", "C", "H", "E", "R", "S">>,
     WStudent, <<"S", "t", "u", "d", "e", "n", "t", "s">>}
PopulateInputs == {Undefined} \cup Concats(PopulateAtoms, MaxAtoms)

PlanGetAll(entity, query) ==
    /\ call' = [handler |-> "getAll", entity |-> entity, query |-> query]
    /\ result' = [options |-> FindAllOptions(entity, query),
                  meta |-> Meta(entity, Count(entity), query)]
    /\ UNCHANGED <<store, reqs>>

PlanGetById(entity, query) ==
    /\ call' = [handler |-> "getById", entity |-> entity, query |-> query]
    /\ result' = [options |-> FindByPkOptions(entity, query)]
    /\ UNCHANGED <<store, reqs>>

PagingRequest ==
    /\ call = NoCall
    /\ \E entity \in Entities, page \in NumInputs, limit \in NumInputs :
           PlanGetAll(entity, [NoQuery EXCEPT !.page = page, !.limit = limit])

SortRequest ==
    /\ call = NoCall
    /\ \E entity \in Entities, sortby \in SortInputs :
           PlanGetAll(entity, [NoQuery EXCEPT !.sortby = sortby])

PopulateListRequest ==
    /\ call = NoCall
    /\ \E entity \in Entities, populate \in PopulateInputs :
           PlanGetAll(entity, [NoQuery EXCEPT !.populate = populate])

PopulateSingleRequest ==
    /\ call = NoCall
    /\ \E entity \in Entities, populate \in PopulateInputs :
           PlanGetById(entity, [NoQuery EXCEPT !.populate = populate])

NextPlan ==
    \/ PagingRequest
    \/ SortRequest
    \/ PopulateListRequest
    \/ PopulateSingleRequest

InitPlan ==
    /\ store = [e \in Entities |-> [i \in Ids |-> NoRow]]
    /\ reqs = [r \in Requests |-> IdleReq]
    /\ call = NoCall
    /\ result = NoResult

SpecPlan == InitPlan /\ [][NextPlan]_vars

(***************************************************************************)
(* Properties of the handlers (checked under Spec).                        *)
(***************************************************************************)
SameRow(a, b) == reqs[a].entity = reqs[b].entity /\ reqs[a].id = reqs[b].id

Answered(r, status, body) ==
    /\ reqs[r].pc = "done"
    /\ reqs[r].nresp = 1
    /\ reqs[r].resp = [status |-> status, body |-> body]

\* C1: a request in which a persistence call failed has ended with exactly
\* one response, and that response is 500 with body {error: <message>}.
C1_FailureAnswered500 ==
    \A r \in Requests :
        reqs[r].failed =>
            /\ reqs[r].nresp = 1
            /\ reqs[r].resp.status = 500
            /\ DOMAIN reqs[r].resp.body = {"error"}

\* Requests other than a and b that create or delete the same row either
\* ended before a arrived or arrived after b ended.
Undisturbed(a, b) ==
    \A x \in Requests \ {a, b} :
        (reqs[x].kind \in {"create", "delete"} /\ SameRow(x, a)) =>
            x \in reqs[a].after \/ b \in reqs[x].after

\* C2: of two DELETE requests on a row that exists, the second arriving after
\* the first has responded, with no create in between and no failure: the
\* first answers 200 {message: "Deleted"}, the second 404, and once the first
\* has answered the row is absent until it is created again.
C2_DeleteTwice ==
    \A a, b \in Requests :
        ( /\ reqs[a].kind = "delete" /\ reqs[b].kind = "delete"
          /\ SameRow(a, b)
          /\ a \in reqs[b].after
          /\ reqs[a].existed
          /\ ~reqs[a].failed
          /\ Undisturbed(a, b) )
        => /\ Answered(a, 200, [message |-> "Deleted"])
           /\ (reqs[b].pc = "done" /\ ~reqs[b].failed
                  => Answered(b, 404, [message |-> "Not found"]))
           /\ ((\A x \in Requests :
                    (reqs[x].kind = "create" /\ SameRow(x, a) /\ reqs[x].wrote)
                        => x \in reqs[a].after)
                  => store[reqs[a].entity][reqs[a].id] = NoRow)

C2_Witness ==
    \E a, b \in Requests :
        /\ reqs[a].kind = "delete" /\ reqs[b].kind = "delete"
        /\ SameRow(a, b)
        /\ a \in reqs[b].after
        /\ reqs[a].existed
        /\ Answered(a, 200, [message |-> "Deleted"])
        /\ Answered(b, 404, [message |-> "Not found"])

\* No request has changed the entity's table and the table is empty, so it
\* has held 0 records since the start.
AlwaysEmpty(entity) ==
    /\ Present(store, entity) = {}
    /\ \A x \in Requests : reqs[x].entity = entity => ~reqs[x].wrote

\* C3: a list request answered 200 against a table that holds 0 records has
\* meta {totalItems: 0, page, totalPages: 0} and data [].
C3_EmptyList ==
    \A r \in Requests :
        ( /\ reqs[r].kind = "getAll"
          /\ reqs[r].resp.status = 200
          /\ AlwaysEmpty(reqs[r].entity) )
        => /\ DOMAIN reqs[r].resp.body = {"meta", "data"}
           /\ DOMAIN reqs[r].resp.body.meta = {"totalItems", "page", "totalPages"}
           /\ reqs[r].resp.body.meta.totalItems = 0
           /\ reqs[r].resp.body.meta.totalPages = 0
           /\ reqs[r].resp.body.data = <<>>

ByIdKinds == {"getById", "update", "delete"}

\* The lookup of request r has resolved to null.
LookedUpNull(r) ==
    /\ reqs[r].kind \in ByIdKinds
    /\ reqs[r].pc # "findByPk"
    /\ ~reqs[r].failed
    /\ reqs[r].found = Null

C4_NotFoundState ==
    \A r \in Requests :
        LookedUpNull(r) =>
            /\ Answered(r, 404, [message |-> "Not found"])
            /\ reqs[r].calls = {"findByPk"}
            /\ ~reqs[r].wrote

C4_NotFoundStep ==
    \A r \in Requests :
        ( /\ reqs[r].kind \in ByIdKinds
          /\ reqs[r].pc = "findByPk"
          /\ store[reqs[r].entity][reqs[r].id] = NoRow
          /\ reqs'[r] # reqs[r]
          /\ ~reqs'[r].failed )
        => /\ reqs'[r].pc = "done"
           /\ reqs'[r].resp = [status |-> 404, body |-> [message |-> "Not found"]]
           /\ store' = store

\* C4: GET by id, PUT and DELETE on an id that is not in the store, when the
\* lookup itself succeeds, answer 404 {message: "Not found"}; update and
\* destroy are not invoked and the store is unchanged.
C4_NotFound == []C4_NotFoundState /\ [][C4_NotFoundStep]_vars

C4_Witness ==
    \E r \in Requests : reqs[r].kind = "update" /\ LookedUpNull(r)

FailureStatus == {404, 500}

C9_FailedState ==
    \A r \in Requests :
        (reqs[r].kind \in {"update", "delete"} /\ reqs[r].resp.status \in FailureStatus)
            => ~reqs[r].wrote

C9_FailedStep ==
    \A r \in Requests :
        ( /\ reqs[r].kind \in {"update", "delete"}
          /\ reqs'[r] # reqs[r]
          /\ reqs'[r].resp.status \in FailureStatus )
        => /\ store' = store
           /\ \A x \in Requests \ {r} : reqs'[x] = reqs[x]

\* C9: a PUT or DELETE that answers 404 or 500 has not changed the store at
\* any of its steps, and the step that fails changes no other request.
C9_FailureLeavesStore == []C9_FailedState /\ [][C9_FailedStep]_vars

C9_Witness ==
    \E r \in Requests :
        /\ reqs[r].kind \in {"update", "delete"}
        /\ reqs[r].resp.status = 500
        /\ reqs[r].calls \cap {"update", "destroy"} # {}
        /\ store[reqs[r].entity][reqs[r].id] = reqs[r].found.name

Deleted200(entity, id) ==
    {r \in Requests :
        /\ reqs[r].kind = "delete" /\ reqs[r].entity = entity /\ reqs[r].id = id
        /\ reqs[r].resp = [status |-> 200, body |-> [message |-> "Deleted"]]}

Created(entity, id) ==
    {r \in Requests :
        /\ reqs[r].kind = "create" /\ reqs[r].entity = entity /\ reqs[r].id = id
        /\ reqs[r].wrote}

\* C10: the 200 {message: "Deleted"} answers for an id never outnumber the
\* times the id was created (the row the store started with counts once).
C10_DeletedAtMostCreated ==
    \A entity \in Entities, id \in Ids :
        Cardinality(Deleted200(entity, id)) <= 1 + Cardinality(Created(entity, id))

(***************************************************************************)
(* Properties of the query interpretation (checked under SpecPlan).  The   *)
(* reference readings of the raw strings below are written without the     *)
(* operators the handlers are modelled with.                               *)
(***************************************************************************)
DecDigits == <<"0", "1", "2", "3", "4", "5", "6", "7", "8", "9">>

IsDecDigit(c) == \E k \in 1..10 : DecDigits[k] = c

\* The value of a string of decimal digits.
DecValue[s \in Seq(STRING)] ==
    IF s = <<>> THEN 0
    ELSE 10 * DecValue[SubSeq(s, 1, Len(s) - 1)]
         + (CHOOSE k \in 1..10 : DecDigits[k] = s[Len(s)]) - 1

\* A numeric string: decimal digits, with an optional minus sign in front.
IsNumeric(s) ==
    /\ s # Undefined
    /\ LET digits == IF s # <<>> /\ s[1] = "-" THEN Tail(s) ELSE s
       IN  digits # <<>> /\ \A i \in 1..Len(digits) : IsDecDigit(digits[i])

IntValue(s) == IF s[1] = "-" THEN 0 - DecValue[Tail(s)] ELSE DecValue[s]

\* Absent, or the first character that is not white space is neither a
\* decimal digit nor a sign followed by a decimal digit.
NoLeadingInteger(s) ==
    \/ s = Undefined
    \/ \A i \in 1..Len(s) :
          ((\A j \in 1..(i - 1) : s[j] \in WhiteSpace) /\ s[i] \notin WhiteSpace)
              => /\ ~IsDecDigit(s[i])
                 /\ ~(s[i] \in {"+", "-"} /\ i < Len(s) /\ IsDecDigit(s[i + 1]))

IsList == call.handler = "getAll"

C6_PlanInRange ==
    IsList => result.options.limit >= 1 /\ result.options.offset >= 0

\* The raw populate string holds token t between commas, up to case and
\* surrounding white space.
HasToken(raw, t) ==
    /\ raw # Undefined
    /\ \E a \in 1..(Len(raw) + 1), b \in 0..Len(raw) :
          /\ a = 1 \/ raw[a - 1] = ","
          /\ b = Len(raw) \/ raw[b + 1] = ","
          /\ \A k \in a..b : raw[k] # ","
          /\ \E i \in a..b :
                /\ i + Len(t) - 1 <= b
                /\ \A k \in a..(i - 1) : raw[k] \in WhiteSpace
                /\ \A k \in (i + Len(t))..b : raw[k] \in WhiteSpace
                /\ \A k \in 1..Len(t) : ToLowerChar(raw[i + k - 1]) = t[k]

\* The models of an include list, with the models nested in each.
Shape(include) ==
    [k \in 1..Len(include) |->
        <<include[k].model,
          [n \in 1..Len(include[k].include) |-> include[k].include[n].model]>>]

ExpectedShape(entity, raw) ==
    LET course == HasToken(raw, WCourse) \/ HasToken(raw, WCourses)
        nested ==
            IF entity = "Student" THEN
                IF HasToken(raw, WTeacher) THEN <<"Teacher">> ELSE <<>>
            ELSE
                IF HasToken(raw, WStudent) \/ HasToken(raw, WStudents)
                THEN <<"Student">> ELSE <<>>
    IN  IF course THEN << <<"Course", nested>> >> ELSE <<>>

\* C7: in the list and the get-by-id handler the include graph is [Course]
\* iff populate holds the token course or courses, with Teacher (on Student)
\* nested iff it also holds teacher, and Student (on Teacher) nested iff it
\* also holds student or students; otherwise the include graph is empty.
C7_IncludeGraph ==
    call.handler \in {"getAll", "getById"} =>
        Shape(result.options.include) = ExpectedShape(call.entity, call.query.populate)

C7_Witness ==
    /\ call.handler = "getById"
    /\ call.entity = "Student"
    /\ call.query.populate = WCourse \o <<",">> \o <<" ">> \o WTeacher
    /\ Shape(result.options.include) = << <<"Course", <<"Teacher">> >> >>

StartsDesc(s) ==
    Len(s) >= 4 /\ s[1] = "D" /\ s[2] = "e" /\ s[3] = "s" /\ s[4] = "c"

Drop4(s) == [i \in 1..(Len(s) - 4) |-> s[i + 4]]

SortIs(field, order) == result.options.order = << <<field, order>> >>

\* C8 as amended: a sortby that starts with "Desc" gives the rest of the
\* string and DESC; any other non-empty sortby gives itself and ASC; an
\* absent or empty sortby gives "name" and ASC.
C8_Sort ==
    IsList =>
        LET sortby == call.query.sortby
        IN  IF sortby = Undefined \/ sortby = <<>> THEN SortIs(WName, "ASC")
            ELSE IF StartsDesc(sortby) THEN SortIs(Drop4(sortby), "DESC")
            ELSE SortIs(sortby, "ASC")

C8_Witness ==
    /\ IsList
    /\ call.query.sortby = WDesc \o <<"d">>
    /\ SortIs(<<"d">>, "DESC")

\* C8 as stated: every present sortby that does not start with "Desc" gives
\* itself and ASC.
C8_AsStated ==
    IsList =>
        LET sortby == call.query.sortby
        IN  IF sortby = Undefined THEN SortIs(WName, "ASC")
            ELSE IF StartsDesc(sortby) THEN SortIs(Drop4(sortby), "DESC")
            ELSE SortIs(sortby, "ASC")

=============================================================================
